---- MODULE Spec2Model ----
(***************************************************************************)
(* Cell-by-cell execution of the notebook                                  *)
(* Quantum_physics/02_Time_evolution_and_ground_states.ipynb, including    *)
(* the definitions notebook it pulls in with %run (Quantum_physics/        *)
(* 00_intro.ipynb).  One action per code cell; the two for-loops are       *)
(* unrolled into one action per statement / iteration.                     *)
(*                                                                         *)
(* Numbers.  A scalar of the Hamiltonian is a decimal <<m, x>> = m * 10^x. *)
(* Times are exact rationals <<num, den>>.  Singular values are compared   *)
(* as arbitrary-precision naturals (digit strings), because relerr = 1e-10 *)
(* needs more than 32 bits of dynamic range.                               *)
(*                                                                         *)
(* A two-site operator (an mpnum MPArray with two sites) is a sequence of  *)
(* product operators [c, a, b] standing for c * (a (x) b); its bond        *)
(* dimension is the number of entries, since mpnum's + concatenates bonds. *)
(***************************************************************************)
EXTENDS Integers, Sequences, FiniteSets, TLC

\* ---------------------------------------------------------------- bounds
MaxSites == 6
MaxSteps == 5
MaxHExp == 11

\* ------------------------------------------------------- program constants
ldim == 2
width == 2
max_gb == 2
GiBShift == 30
RelErrExp == 10

\* ------------------------------------------------------------- arithmetic
Abs(k) == IF k < 0 THEN -k ELSE k

RECURSIVE Pow(_, _)
Pow(b, e) == IF e = 0 THEN 1 ELSE b * Pow(b, e - 1)

\* decimals <<m, x>> = m * 10^x
DecOne == <<1, 0>>
DecMul(p, q) == <<p[1] * q[1], p[2] + q[2]>>
DecIsZero(p) == p[1] = 0

\* rationals <<num, den>>, den > 0
RatZero == <<0, 1>>
RECURSIVE Gcd(_, _)
Gcd(a, b) == IF b = 0 THEN a ELSE Gcd(b, a % b)
RatNorm(p) == LET g == Gcd(Abs(p[1]), p[2])
              IN  IF g = 0 THEN p ELSE <<p[1] \div g, p[2] \div g>>
RatAdd(p, q) == RatNorm(<<p[1] * q[2] + q[1] * p[2], p[2] * q[2]>>)
RatEq(p, q) == p[1] * q[2] = q[1] * p[2]
\* the decimal <<m, x>> (x <= 0 for the times used here) as a rational
RatOfDec(d) == IF d[2] >= 0 THEN <<d[1] * Pow(10, d[2]), 1>>
               ELSE <<d[1], Pow(10, -d[2])>>

\* The one element of a singleton set.  Operands are bound through singleton
\* sets below so that each is evaluated once, not once per digit.
The(S) == CHOOSE v \in S : TRUE

\* arbitrary-precision naturals: tuples of BigLen decimal digits, least
\* significant digit first
BigLen == 2 * MaxHExp + RelErrExp + 4
RECURSIVE Zeros(_)
Zeros(n) == IF n = 0 THEN <<>> ELSE <<0>> \o Zeros(n - 1)
BigZero == Zeros(BigLen)
RECURSIVE Digits(_, _)
Digits(m, n) == IF n = 0 THEN <<>> ELSE <<m % 10>> \o Digits(m \div 10, n - 1)
\* x * 10^k
BigShift(x, k) == The({SubSeq(Zeros(k) \o a, 1, BigLen) : a \in {x}})
\* m * 10^k for a machine integer m >= 0
BigOf(m, k) == BigShift(Digits(m, BigLen), k)
RECURSIVE BigAddFrom(_, _, _, _)
BigAddFrom(x, y, j, carry) ==
  IF j > BigLen THEN <<>>
  ELSE LET d == x[j] + y[j] + carry
       IN  <<d % 10>> \o BigAddFrom(x, y, j + 1, d \div 10)
BigAdd(x, y) == The({BigAddFrom(a, b, 1, 0) : a \in {x}, b \in {y}})
\* x * m for a machine integer 0 <= m < 10^8
RECURSIVE BigScaleFrom(_, _, _, _)
BigScaleFrom(x, m, j, carry) ==
  IF j > BigLen THEN <<>>
  ELSE LET d == x[j] * m + carry
       IN  <<d % 10>> \o BigScaleFrom(x, m, j + 1, d \div 10)
BigScale(x, m) == The({BigScaleFrom(a, m, 1, 0) : a \in {x}})
RECURSIVE BigLeqFrom(_, _, _)
BigLeqFrom(x, y, j) == IF j < 1 THEN TRUE
                       ELSE IF x[j] # y[j] THEN x[j] < y[j]
                       ELSE BigLeqFrom(x, y, j - 1)
BigLeq(x, y) == The({BigLeqFrom(a, b, BigLen) : a \in {x}, b \in {y}})

\* ------------------------------------------------- inputs of the notebook
\* The literals of the parameter cell, taken as inputs.  The notebook itself
\* has n_sites = 6, steps = 5, h = .3 = <<3, -1>>, t = 0.9 = <<9, -1>>.
SitesRange == 2 .. MaxSites
StepsRange == 0 .. MaxSteps
HRange == {<<0, 0>>} \cup {<<m, x>> : m \in {-3, 3}, x \in (-MaxHExp) .. MaxHExp}
TRange == {<<9, -1>>}
ParamSets == [n_sites : SitesRange, steps : StepsRange, h : HRange, t : TRange]

\* ------------------------------------------------ files of the notebooks
\* the file named by the %run magic of the time-evolution notebook
RunTarget == "init.ipynb"
\* the notebooks of the repository; the first is its basic-definitions
\* notebook
RepoNotebooks == {"00_intro.ipynb", "01_GHZ_circuit.ipynb",
                  "02_Time_evolution_and_ground_states.ipynb"}

VARIABLES
  params,        \* the literals written in the parameter cell
  env_resource,  \* TRUE iff `import resource` succeeds on this platform
  init_found,    \* TRUE iff %run finds its file in the notebook's directory
  rlimit_raisable, \* TRUE iff the process may set its hard RLIMIT_AS to infinity
  pc,            \* the cell (or statement of a loop) to execute next
  err,           \* the exception that stopped the run, "none" otherwise
  defined,       \* names bound in the interactive namespace
  stdout,        \* lines printed so far
  rlimit_calls,  \* calls made to resource.setrlimit
  n_sites, steps, h, t, tau,
  h_terms, ranks_printed, h_terms_arr,
  H, pos,
  psi_0, psi_t_spa,
  h_evos, h_evo_even, h_evo_odd,
  psi, i, calls

vars == <<params, env_resource, init_found, rlimit_raisable, pc, err, defined, stdout, rlimit_calls,
          n_sites, steps, h, t, tau, h_terms, ranks_printed, h_terms_arr,
          H, pos, psi_0, psi_t_spa, h_evos, h_evo_even, h_evo_odd,
          psi, i, calls>>

\* the parameter cell's text, the platform and the files do not change
\* during a run
envVars == <<params, env_resource, init_found, rlimit_raisable>>
introVars == <<stdout, rlimit_calls>>
paramVars == <<n_sites, steps, h, t, tau>>
hamVars == <<h_terms, ranks_printed, h_terms_arr, H, pos>>
evoVars == <<psi_0, psi_t_spa, h_evos, h_evo_even, h_evo_odd, psi, i, calls>>

Init ==
  /\ params \in ParamSets
  /\ env_resource \in BOOLEAN
  /\ init_found \in {RunTarget \in RepoNotebooks, TRUE}
  /\ rlimit_raisable \in BOOLEAN
  /\ pc = "c1"
  /\ err = "none"
  /\ defined = {}
  /\ stdout = <<>>
  /\ rlimit_calls = <<>>
  /\ n_sites = 0 /\ steps = 0 /\ h = <<0, 0>> /\ t = <<0, 0>> /\ tau = RatZero
  /\ h_terms = <<>> /\ ranks_printed = <<>> /\ h_terms_arr = <<>>
  /\ H = <<>> /\ pos = 0
  /\ psi_0 = <<>> /\ psi_t_spa = [set |-> FALSE, time |-> RatZero]
  /\ h_evos = <<>> /\ h_evo_even = <<>> /\ h_evo_odd = <<>>
  /\ psi = [sites |-> <<>>, gates |-> <<>>, compressions |-> 0]
  /\ i = 0 /\ calls = <<>>

\* ------------------------------------------------------- cells and names
\* A statement: the names it reads from the interactive namespace, the names
\* it binds once it has run, the line it prints.
S(u, d, o) == [uses |-> u, defs |-> d, out |-> o]

\* The statements of a cell in source order.  "i1".."i6" are the code cells
\* of the definitions notebook, "c1".."c14" those of the time-evolution
\* notebook.  A cell with a loop is given in parts: "c6" up to the loop
\* header, "c6_for" one iteration; "c11" up to the loop header, "c11_for",
\* "c11_odd", "c11_compress" the three statements of one iteration (the
\* first with the binding of the loop variable), "c11_end" the statements
\* after the loop.  The body of a list comprehension reads its names only
\* if the list it runs over has an element.
Stmts(c) ==
  CASE c = "i1" -> << S({}, {"mp"}, <<>>), S({}, {"np"}, <<>>),
                      S({}, {"sp"}, <<>>), S({}, {"spa"}, <<>>),
                      S({}, {"plt"}, <<>>), S({}, {"sns"}, <<>>) >>
    [] c = "i2" -> << S({}, {"max_gb"}, <<>>), S({}, {"resource"}, <<>>),
                      S({"resource", "max_gb"}, {}, <<>>) >>
    [] c = "i3" -> << S({}, {"ldim"}, <<>>) >>
    [] c = "i4" -> << S({"np"}, {"up"}, <<>>), S({"np"}, {"down"}, <<>>),
                      S({"np", "up"}, {"puu"}, <<>>),
                      S({"np", "down"}, {"pdd"}, <<>>),
                      S({"np"}, {"px"}, <<>>), S({"np"}, {"py"}, <<>>),
                      S({"np"}, {"pz"}, <<>>) >>
    [] c = "i5" -> << S({"up", "down", "mp"}, {"mup", "mdown"}, <<>>),
                      S({"px", "py", "pz", "puu", "pdd", "mp"},
                        {"mpx", "mpy", "mpz", "muu", "mdd"}, <<>>),
                      S({"mp", "ldim"}, {"mid"}, <<>>) >>
    [] c = "c2" -> << S({}, {"ldim"}, <<>>), S({}, {"n_sites"}, <<>>),
                      S({}, {"width"}, <<>>), S({}, {"h"}, <<>>),
                      S({}, {"t"}, <<>>), S({}, {"steps"}, <<>>),
                      S({"t", "steps"}, {"tau"}, <<>>) >>
    [] c = "c3" -> << S({"mp", "mpx", "mpy", "h", "mpz", "mid"}, {"h_term"}, <<>>),
                      S({"n_sites", "h_term"}, {"h_terms"}, <<>>),
                      S({"h_terms", "h", "mp", "mid", "mpz"}, {}, <<>>) >>
    [] c = "c4" -> << S({"h_terms"}, {}, <<>>), S({"h_terms"}, {}, <<>>),
                      S({"h_terms"}, {}, <<>>) >>
    [] c = "c5" -> << S({"h_terms"} \cup (IF h_terms # <<>>
                                          THEN {"ldim", "width"} ELSE {}),
                        {"h_terms_arr"}, <<>>) >>
    [] c = "c6" -> << S({}, {"H"}, <<>>), S({"h_terms_arr"}, {}, <<>>) >>
    [] c = "c6_for" -> << S({}, {"pos", "term"}, <<>>),
                          S({"H", "spa", "ldim", "pos", "term", "n_sites",
                             "width"}, {}, <<>>) >>
    [] c = "c7" -> << S({"mp", "mup", "mdown", "n_sites"}, {"psi_0"}, <<>>),
                      S({"psi_0"}, {"psi_0_arr"}, <<>>) >>
    [] c = "c8" -> << S({"spa", "H", "t", "psi_0_arr"}, {"psi_t_spa"}, <<>>),
                      S({"np", "psi_t_spa"}, {},
                        <<"Norm of the evolved state:">>) >>
    [] c = "c9" -> << S({"h_terms"} \cup (IF h_terms # <<>>
                                          THEN {"mp", "sp", "tau", "ldim", "width"}
                                          ELSE {}),
                        {"h_evos"}, <<>>) >>
    [] c = "c10" -> << S({"mp", "h_evos"}, {"h_evo_even"}, <<>>),
                       S({"mp", "h_evos"}, {"h_evo_odd"}, <<>>) >>
    [] c = "c11" -> << S({"psi_0"}, {"psi"}, <<>>), S({"steps"}, {}, <<>>) >>
    [] c = "c11_for" -> << S({}, {"i"}, <<>>),
                           S({"mp", "h_evo_even", "psi"}, {"psi"}, <<>>) >>
    [] c = "c11_odd" -> << S({"mp", "h_evo_odd", "psi"}, {"psi"}, <<>>) >>
    [] c = "c11_compress" -> << S({"psi"}, {}, <<>>) >>
    [] c = "c11_end" ->
         << S({"psi"}, {"psi_t_arr"}, <<>>),
            S({"np", "psi_t_arr"}, {}, <<"Norm of the time-evolved state:">>),
            S({"np", "psi_t_arr", "psi_t_spa"}, {},
              <<"Overlap with solution from sparse matrix:">>) >>
    [] c = "c12" -> << S({"spa", "H"}, {"eigval_spa", "eigvec_spa"}, <<>>) >>
    [] c = "c13" ->
         << S({"mp", "h_terms"}, {"H_mpo"}, <<>>),
            S({}, {"ft"}, <<>>),
            S({"ft", "spa"}, {"eigs_fun"}, <<>>),
            S({"mp", "H_mpo", "eigs_fun"}, {"eigval", "eigvec"}, <<>>),
            S({"eigvec"}, {"eigvec_arr"}, <<>>),
            S({"mp", "H_mpo", "eigvec"}, {"Hpsi"}, <<>>),
            S({"mp", "Hpsi"}, {"ept_Hsq"}, <<>>),
            S({"mp", "eigvec", "Hpsi"}, {"ept_H"}, <<>>),
            S({"ept_Hsq", "ept_H"}, {"rel_var"}, <<>>),
            S({"eigval", "eigval_spa"}, {}, <<"Eigenvalue difference:">>),
            S({"np", "eigvec_spa", "eigvec_arr"}, {}, <<"Eigenvector overlap:">>),
            S({"rel_var"}, {}, <<"Relative variance:">>) >>
    [] OTHER -> << >>

\* names bound and lines printed by the first k statements
DefsUpTo(c, k) == UNION {Stmts(c)[j].defs : j \in 1 .. k}
RECURSIVE OutUpTo(_, _)
OutUpTo(c, k) == IF k = 0 THEN <<>> ELSE OutUpTo(c, k - 1) \o Stmts(c)[k].out

\* names bound by the statements of c, and names they read without having
\* bound them
Defs(c) == DefsUpTo(c, Len(Stmts(c)))
Uses(c) ==
  UNION {Stmts(c)[k].uses \ DefsUpTo(c, k - 1) : k \in 1 .. Len(Stmts(c))}

\* The first statement that reads an unbound name (0 if there is none):
\* Python raises NameError there, with the statements before it done.
FailAt(c) ==
  LET bad == {k \in 1 .. Len(Stmts(c)) :
                ~(Stmts(c)[k].uses \subseteq (defined \cup DefsUpTo(c, k - 1)))}
  IN  IF bad = {} THEN 0 ELSE CHOOSE k \in bad : \A q \in bad : k <= q
Executed(c) == IF FailAt(c) = 0 THEN Len(Stmts(c)) ELSE FailAt(c) - 1
\* the k-th statement of c runs to its end
Ran(c, k) == k <= Executed(c)

\* The order of the code cells in each notebook file.
NextCell(c) ==
  CASE c = "i1" -> "i2" [] c = "i2" -> "i3" [] c = "i3" -> "i4"
    [] c = "i4" -> "i5" [] c = "i5" -> "i6" [] c = "i6" -> "c2"
    [] c = "c2" -> "c3" [] c = "c3" -> "c4"
    [] c = "c4" -> "c5" [] c = "c5" -> "c6" [] c = "c6" -> "c7"
    [] c = "c7" -> "c8" [] c = "c8" -> "c9" [] c = "c9" -> "c10"
    [] c = "c10" -> "c11" [] c = "c11" -> "c12" [] c = "c12" -> "c13"
    [] c = "c13" -> "c14" [] c = "c14" -> "done"
    [] OTHER -> "done"

\* An uncaught exception stops the run at the current cell.
Halt(e) == pc' = "error" /\ err' = e
\* A cell that ran to its end: its names are bound, the next cell is due.
Finish(c) == pc' = NextCell(c) /\ err' = err /\ defined' = defined \cup Defs(c)
\* The statements of c run up to the first NameError, or all of them and
\* then `next` is due.
RunStmts(c, next) ==
  /\ defined' = defined \cup DefsUpTo(c, Executed(c))
  /\ stdout' = stdout \o OutUpTo(c, Executed(c))
  /\ IF FailAt(c) = 0 THEN pc' = next /\ err' = err ELSE Halt("NameError")

\* ------------------------------------------- the definitions notebook
\* %run init.ipynb.  The repository has no file of that name: in its own
\* directory the magic raises Exception("File `'init.ipynb'` not found.") and
\* nothing is bound.  In a directory where the definitions notebook has been
\* put under the name asked for, its cells run, in order, in the namespace
\* of the calling notebook.
Cell1 ==
  /\ pc = "c1"
  /\ UNCHANGED envVars
  /\ IF init_found THEN pc' = "i1" /\ err' = err ELSE Halt("Exception")
  /\ UNCHANGED <<defined, introVars, paramVars, hamVars, evoVars>>

IntroCell1 ==
  /\ pc = "i1"
  /\ UNCHANGED envVars
  /\ RunStmts("i1", NextCell("i1"))
  /\ UNCHANGED <<rlimit_calls, paramVars, hamVars, evoVars>>

\* try: import resource / except ImportError: resource = None
\* The value bound to `resource`, or "raise" if the exception escapes.
TryImportResource_NoCatch == IF env_resource THEN "module" ELSE "raise"
TryImportResource == IF env_resource THEN "module" ELSE "None"

\* The soft limit handed to setrlimit, max_gb * 2**30 bytes, as an
\* arbitrary-precision natural (2^31 is outside the machine integers here).
\* 2**30 is applied as two factors 2**15 so that every digit product stays
\* a machine integer.
SoftLimit ==
  BigScale(BigScale(BigOf(max_gb, 0), Pow(2, GiBShift \div 2)),
           Pow(2, GiBShift - GiBShift \div 2))

\* setrlimit raises ValueError ("not allowed to raise maximum limit") when
\* the hard limit of the process is finite and the process may not raise it;
\* the limits then stay as they were.
IntroCell2 ==
  /\ pc = "i2"
  /\ UNCHANGED envVars
  /\ LET resource == TryImportResource IN
       IF resource = "raise"
       THEN /\ Halt("ImportError")
            /\ defined' = defined \cup {"max_gb"}
            /\ UNCHANGED introVars
       ELSE /\ defined' = defined \cup Defs("i2")
            /\ IF resource = "None"
               THEN /\ stdout' = Append(stdout, "Warning: No memory limit set!")
                    /\ UNCHANGED rlimit_calls
                    /\ pc' = NextCell("i2") /\ err' = err
               ELSE /\ rlimit_calls' = Append(rlimit_calls,
                         [resource |-> "RLIMIT_AS", soft |-> SoftLimit,
                          hard |-> "RLIM_INFINITY"])
                    /\ UNCHANGED stdout
                    /\ IF rlimit_raisable
                       THEN pc' = NextCell("i2") /\ err' = err
                       ELSE Halt("ValueError")
  /\ UNCHANGED <<paramVars, hamVars, evoVars>>

IntroCell3 ==
  /\ pc = "i3"
  /\ UNCHANGED envVars
  /\ RunStmts("i3", NextCell("i3"))
  /\ UNCHANGED <<rlimit_calls, paramVars, hamVars, evoVars>>

IntroCell4 ==
  /\ pc = "i4"
  /\ UNCHANGED envVars
  /\ RunStmts("i4", NextCell("i4"))
  /\ UNCHANGED <<rlimit_calls, paramVars, hamVars, evoVars>>

IntroCell5 ==
  /\ pc = "i5"
  /\ UNCHANGED envVars
  /\ RunStmts("i5", NextCell("i5"))
  /\ UNCHANGED <<rlimit_calls, paramVars, hamVars, evoVars>>

\* the empty last cell
IntroCell6 ==
  /\ pc = "i6"
  /\ UNCHANGED envVars
  /\ RunStmts("i6", NextCell("i6"))
  /\ UNCHANGED <<rlimit_calls, paramVars, hamVars, evoVars>>

\* ------------------------------------------------------ parameter cell
\* Python raises ZeroDivisionError for a zero divisor.
DivisionDefined_OffByOne(s) == s - 1 # 0
DivisionDefined(s) == s # 0
\* tau = t / steps
Tau_FullTime(tt, s) == RatOfDec(tt)
Tau(tt, s) == LET r == RatOfDec(tt) IN <<r[1], r[2] * s>>

Cell2 ==
  /\ pc = "c2"
  /\ UNCHANGED envVars
  /\ n_sites' = params.n_sites
  /\ h' = params.h
  /\ t' = params.t
  /\ steps' = params.steps
  /\ IF DivisionDefined(params.steps)
     THEN /\ tau' = Tau(params.t, params.steps)
          /\ Finish("c2")
     ELSE /\ Halt("ZeroDivisionError")
          /\ defined' = defined \cup (Defs("c2") \ {"tau"})
          /\ UNCHANGED tau
  /\ UNCHANGED <<introVars, hamVars, evoVars>>

\* -------------------------------------------------- Hamiltonian terms
Prod(coef, opa, opb) == [c |-> coef, a |-> opa, b |-> opb]

\* h_term = mp.chain((mpx, mpx)) + mp.chain((mpy, mpy)) + h * mp.chain((mpz, mid))
HTerm(hh) == <<Prod(DecOne, "X", "X"), Prod(DecOne, "Y", "Y"),
               Prod(DecMul(hh, DecOne), "Z", "I")>>

\* h_terms = [h_term.copy() for _ in range(n_sites - 1)]
\* h_terms[-1] += h * mp.chain((mid, mpz))
HTerms_Aliased(n, hh) ==
  [k \in 1 .. (n - 1) |-> Append(HTerm(hh), Prod(DecMul(hh, DecOne), "I", "Z"))]
HTermCopies(n, hh) == [k \in 1 .. (n - 1) |-> HTerm(hh)]
HTerms(n, hh) ==
  LET copies == HTermCopies(n, hh)
      last == Len(copies)
  IN  [copies EXCEPT ![last] = Append(@, Prod(DecMul(hh, DecOne), "I", "Z"))]

Cell3 ==
  /\ pc = "c3"
  /\ UNCHANGED envVars
  /\ RunStmts("c3", NextCell("c3"))
  /\ h_terms' = IF Ran("c3", 3) THEN HTerms(n_sites, h)
                ELSE IF Ran("c3", 2) THEN HTermCopies(n_sites, h)
                ELSE h_terms
  /\ UNCHANGED <<ranks_printed, h_terms_arr, H, pos>>
  /\ UNCHANGED <<rlimit_calls, paramVars, evoVars>>

\* ------------------------------------------------ ranks and compression
\* t.ranks of a two-site MPArray: the dimension of its one bond.
Ranks(term) == Len(term)

\* Singular value of the k-th product operator across the bond.  The
\* product operators of a term are mutually orthogonal (pairwise distinct
\* Pauli factors on either side, see SchmidtForm), each factor has squared
\* Frobenius norm ldim, so the singular values are ldim * |c|.  They are
\* held as naturals in units of 10^-MaxHExp.
SingularValue(term, k) ==
  BigOf(ldim * Abs(term[k].c[1]), term[k].c[2] + MaxHExp)

\* sum of the entries j.. of a tuple of naturals
RECURSIVE BigSumFrom(_, _)
BigSumFrom(svs, j) == IF j > Len(svs) THEN BigZero
                      ELSE BigAdd(svs[j], BigSumFrom(svs, j + 1))
BigSum(svs) == BigSumFrom(svs, 1)

\* indices of the product operators by decreasing singular value (equal
\* values in their order of appearance): q comes before k
ComesBefore(term, q, k) ==
  \/ ~BigLeq(SingularValue(term, q), SingularValue(term, k))
  \/ q < k /\ BigLeq(SingularValue(term, k), SingularValue(term, q))
SortedIdx(term, n) ==
  [j \in 1 .. n |->
     CHOOSE k \in 1 .. n :
       Cardinality({q \in 1 .. n : q # k /\ ComesBefore(term, q, k)}) = j - 1]

\* the singular values in the order ord
RECURSIVE SingularValuesFrom(_, _, _)
SingularValuesFrom(term, ord, j) ==
  IF j > Len(ord) THEN <<>>
  ELSE <<SingularValue(term, ord[j])>> \o SingularValuesFrom(term, ord, j + 1)
SingularValues(term, ord) == SingularValuesFrom(term, ord, 1)

\* t.compress(method='svd', relerr=1e-10) is a call into the library; its
\* code is not part of the repository.  What the call asks for is a truncated
\* singular value decomposition across the bond with relative error at most
\* relerr = 10^-RelErrExp: the r largest singular values are kept, for an r
\* whose discarded singular values sum to at most relerr * sum(sv).  Which
\* such r the library takes is left open; keeping everything is one of them.
Discardable(svs, r) ==
  BigLeq(BigShift(BigSumFrom(svs, r + 1), RelErrExp), BigSum(svs))
PermittedRanksSorted(term, ord) ==
  The({ {r \in 1 .. Len(term) : Discardable(svs, r)} :
          svs \in {SingularValues(term, ord)} })
PermittedRanks(term) ==
  The({PermittedRanksSorted(term, ord) : ord \in {SortedIdx(term, Len(term))}})

RECURSIVE Keep(_, _, _)
Keep(term, kept, k) ==
  IF k > Len(term) THEN <<>>
  ELSE (IF k \in kept THEN <<term[k]>> ELSE <<>>) \o Keep(term, kept, k + 1)

\* the term cut down to its r largest singular values
Compress(term, r) ==
  The({Keep(term, {ord[j] : j \in 1 .. r}, 1) :
         ord \in {SortedIdx(term, Len(term))}})

\* The results the library may leave for the first k of the given terms:
\* every term cut to a rank within the requested error, equal terms alike.
CompressOne(term) == {Compress(term, r) : r \in PermittedRanks(term)}
RECURSIVE CompressAll(_, _)
CompressAll(terms, k) ==
  IF k = 0 THEN {<<>>}
  ELSE LET same == {j \in 1 .. (k - 1) : terms[j] = terms[k]}
       IN  UNION { {Append(done, cut) :
                      cut \in IF same # {} THEN {done[j] : j \in same}
                              ELSE The({CompressOne(tm) : tm \in {terms[k]}})} :
                   done \in CompressAll(terms, k - 1) }

Cell4 ==
  /\ pc = "c4"
  /\ UNCHANGED envVars
  /\ RunStmts("c4", NextCell("c4"))
  /\ h_terms' \in IF Ran("c4", 2) THEN CompressAll(h_terms, Len(h_terms))
                                     ELSE {h_terms}
  /\ ranks_printed' =
       ranks_printed
       \o (IF Ran("c4", 1)
           THEN << [k \in 1 .. Len(h_terms) |-> Ranks(h_terms[k])] >> ELSE <<>>)
       \o (IF Ran("c4", 3)
           THEN << [k \in 1 .. Len(h_terms) |-> Ranks(h_terms'[k])] >> ELSE <<>>)
  /\ UNCHANGED <<h_terms_arr, H, pos>>
  /\ UNCHANGED <<rlimit_calls, paramVars, evoVars>>

\* ------------------------------------------- sparse-matrix Hamiltonian
\* t.to_array_global().reshape(...): the dense matrix of the term; a dense
\* matrix has no bond, so product operators with coefficient 0 leave no trace.
RECURSIVE ToArray(_)
ToArray(term) ==
  IF term = <<>> THEN <<>>
  ELSE (IF DecIsZero(Head(term).c) THEN <<>> ELSE <<Head(term)>>)
       \o ToArray(Tail(term))

Cell5 ==
  /\ pc = "c5"
  /\ UNCHANGED envVars
  /\ RunStmts("c5", NextCell("c5"))
  /\ h_terms_arr' = IF Ran("c5", 1)
                    THEN [k \in 1 .. Len(h_terms) |-> ToArray(h_terms[k])]
                    ELSE h_terms_arr
  /\ UNCHANGED <<h_terms, ranks_printed, H, pos>>
  /\ UNCHANGED <<rlimit_calls, paramVars, evoVars>>

\* H = 0, then enumerate(h_terms_arr)
Cell6Begin ==
  /\ pc = "c6"
  /\ UNCHANGED envVars
  /\ RunStmts("c6", "c6_for")
  /\ H' = IF Ran("c6", 1) THEN <<>> ELSE H
  /\ pos' = IF Ran("c6", 2) THEN 0 ELSE pos
  /\ UNCHANGED <<h_terms, ranks_printed, h_terms_arr>>
  /\ UNCHANGED <<rlimit_calls, paramVars, evoVars>>

\* spa.kron(spa.eye(ldim**p), spa.kron(term, spa.eye(ldim**(n_sites - width - p)))):
\* every product operator of the term, with p identity sites before it and
\* n_sites - width - p after it.
Kron(p, term) ==
  [k \in 1 .. Len(term) |->
     [c |-> term[k].c, a |-> term[k].a, b |-> term[k].b,
      before |-> p, after |-> n_sites - width - p]]

\* for pos, term in enumerate(h_terms_arr): H += ...
\* pos holds the index enumerate() hands out next.
Cell6Iter ==
  /\ pc = "c6_for"
  /\ UNCHANGED envVars
  /\ pos < Len(h_terms_arr)
  /\ RunStmts("c6_for", "c6_for")
  /\ H' = IF Ran("c6_for", 2) THEN H \o Kron(pos, h_terms_arr[pos + 1]) ELSE H
  /\ pos' = IF Ran("c6_for", 2) THEN pos + 1 ELSE pos
  /\ UNCHANGED <<h_terms, ranks_printed, h_terms_arr>>
  /\ UNCHANGED <<rlimit_calls, paramVars, evoVars>>

Cell6End ==
  /\ pc = "c6_for"
  /\ UNCHANGED envVars
  /\ ~(pos < Len(h_terms_arr))
  /\ pc' = NextCell("c6")
  /\ UNCHANGED <<err, defined, introVars, paramVars, hamVars, evoVars>>

\* ------------------------------------------------------ initial state
\* psi_0 = mp.chain(([mup, mdown] * ((n_sites + 1) // 2))[:n_sites])
Psi0(n) ==
  LET rep == [j \in 1 .. 2 * ((n + 1) \div 2) |->
                IF j % 2 = 1 THEN "mup" ELSE "mdown"]
  IN  SubSeq(rep, 1, n)

Cell7 ==
  /\ pc = "c7"
  /\ UNCHANGED envVars
  /\ RunStmts("c7", NextCell("c7"))
  /\ psi_0' = IF Ran("c7", 1) THEN Psi0(n_sites) ELSE psi_0
  /\ UNCHANGED <<psi_t_spa, h_evos, h_evo_even, h_evo_odd, psi, i, calls>>
  /\ UNCHANGED <<rlimit_calls, paramVars, hamVars>>

\* psi_t_spa = spa.linalg.expm_multiply(-1j * H * t, psi_0_arr), then the
\* print of its norm
Cell8 ==
  /\ pc = "c8"
  /\ UNCHANGED envVars
  /\ RunStmts("c8", NextCell("c8"))
  /\ psi_t_spa' = IF Ran("c8", 1) THEN [set |-> TRUE, time |-> RatOfDec(t)]
                  ELSE psi_t_spa
  /\ UNCHANGED <<psi_0, h_evos, h_evo_even, h_evo_odd, psi, i, calls>>
  /\ UNCHANGED <<rlimit_calls, paramVars, hamVars>>

\* ------------------------------------------------ evolution operators
\* h_evos = [from_array_global(expm((-1j * tau) * term...)) for term in h_terms]:
\* one two-site operator exp(-i * time * h_{k,k+1}) per term, k counted from 0.
HEvos(terms, time) ==
  [k \in 1 .. Len(terms) |-> [term |-> k - 1, time |-> time]]

Cell9 ==
  /\ pc = "c9"
  /\ UNCHANGED envVars
  /\ RunStmts("c9", NextCell("c9"))
  /\ h_evos' = IF Ran("c9", 1) THEN HEvos(h_terms, tau) ELSE h_evos
  /\ UNCHANGED <<psi_0, psi_t_spa, h_evo_even, h_evo_odd, psi, i, calls>>
  /\ UNCHANGED <<rlimit_calls, paramVars, hamVars>>

\* seq[start::2]
Slice2_Every(seq, start) ==
  [j \in 1 .. (IF Len(seq) > start THEN Len(seq) - start ELSE 0) |->
     seq[start + j]]
Slice2(seq, start) ==
  [j \in 1 .. (IF Len(seq) > start THEN (Len(seq) - start + 1) \div 2 ELSE 0) |->
     seq[start + 1 + 2 * (j - 1)]]

\* mp.chain(ops) of two-site operators: the j-th operator (from 0) sits on
\* the sites width * j .. width * j + width - 1 of the chained operator.
Chain(ops) == [j \in 1 .. Len(ops) |-> [op |-> ops[j], offset |-> width * (j - 1)]]

Cell10 ==
  /\ pc = "c10"
  /\ UNCHANGED envVars
  /\ RunStmts("c10", NextCell("c10"))
  /\ h_evo_even' = IF Ran("c10", 1) THEN Chain(Slice2(h_evos, 0)) ELSE h_evo_even
  /\ h_evo_odd' = IF Ran("c10", 2) THEN Chain(Slice2(h_evos, 1)) ELSE h_evo_odd
  /\ UNCHANGED <<psi_0, psi_t_spa, h_evos, psi, i, calls>>
  /\ UNCHANGED <<rlimit_calls, paramVars, hamVars>>

\* ------------------------------------------------------- Trotter loop
\* mp.partialdot(mpo, psi, start): every operator of the chained mpo acts on
\* psi at the sites start + offset .. start + offset + width - 1.
PartialDot(mpo, state, start) ==
  [state EXCEPT !.gates = @ \o
     [j \in 1 .. Len(mpo) |->
        [term |-> mpo[j].op.term, time |-> mpo[j].op.time,
         lo |-> start + mpo[j].offset,
         hi |-> start + mpo[j].offset + width - 1]]]

\* range(steps) has another value after k iterations
RangeHasNext_Inclusive(k, n) == k <= n
RangeHasNext(k, n) == k < n

\* start sites of the two partialdot calls
EvenStart == 0
OddStart == 1

\* psi = psi_0, then range(steps); calls lists the library calls the loop
\* has made
Cell11Begin ==
  /\ pc = "c11"
  /\ UNCHANGED envVars
  /\ RunStmts("c11", "c11_for")
  /\ psi' = IF Ran("c11", 1)
            THEN [sites |-> psi_0, gates |-> <<>>, compressions |-> 0]
            ELSE psi
  /\ i' = IF Ran("c11", 2) THEN 0 ELSE i
  /\ calls' = <<>>
  /\ UNCHANGED <<psi_0, psi_t_spa, h_evos, h_evo_even, h_evo_odd>>
  /\ UNCHANGED <<rlimit_calls, paramVars, hamVars>>

\* for i in range(steps): psi = mp.partialdot(h_evo_even, psi, 0)
\* i holds the number of iterations range() has handed out and finished.
Cell11Even ==
  /\ pc = "c11_for"
  /\ UNCHANGED envVars
  /\ RangeHasNext(i, steps)
  /\ RunStmts("c11_for", "c11_odd")
  /\ IF Ran("c11_for", 2)
     THEN /\ psi' = PartialDot(h_evo_even, psi, EvenStart)
          /\ calls' = Append(calls, [f |-> "partialdot", op |-> "h_evo_even",
                                     start |-> EvenStart, step |-> i])
     ELSE UNCHANGED <<psi, calls>>
  /\ UNCHANGED <<i, psi_0, psi_t_spa, h_evos, h_evo_even, h_evo_odd>>
  /\ UNCHANGED <<rlimit_calls, paramVars, hamVars>>

\* psi = mp.partialdot(h_evo_odd, psi, 1)
Cell11Odd ==
  /\ pc = "c11_odd"
  /\ UNCHANGED envVars
  /\ RunStmts("c11_odd", "c11_compress")
  /\ IF Ran("c11_odd", 1)
     THEN /\ psi' = PartialDot(h_evo_odd, psi, OddStart)
          /\ calls' = Append(calls, [f |-> "partialdot", op |-> "h_evo_odd",
                                     start |-> OddStart, step |-> i])
     ELSE UNCHANGED <<psi, calls>>
  /\ UNCHANGED <<i, psi_0, psi_t_spa, h_evos, h_evo_even, h_evo_odd>>
  /\ UNCHANGED <<rlimit_calls, paramVars, hamVars>>

\* psi.compress(method='svd', relerr=1e-10); then back to the loop head
Cell11Compress ==
  /\ pc = "c11_compress"
  /\ UNCHANGED envVars
  /\ RunStmts("c11_compress", "c11_for")
  /\ IF Ran("c11_compress", 1)
     THEN /\ psi' = [psi EXCEPT !.compressions = @ + 1]
          /\ calls' = Append(calls, [f |-> "compress", op |-> "psi",
                                     start |-> 0, step |-> i])
          /\ i' = i + 1
     ELSE UNCHANGED <<psi, calls, i>>
  /\ UNCHANGED <<psi_0, psi_t_spa, h_evos, h_evo_even, h_evo_odd>>
  /\ UNCHANGED <<rlimit_calls, paramVars, hamVars>>

\* after the loop: psi_t_arr = psi.to_array().ravel() and the two prints
Cell11End ==
  /\ pc = "c11_for"
  /\ UNCHANGED envVars
  /\ ~RangeHasNext(i, steps)
  /\ RunStmts("c11_end", NextCell("c11"))
  /\ UNCHANGED <<rlimit_calls, paramVars, hamVars, evoVars>>

\* ------------------------------------------------------ ground states
Cell12 ==
  /\ pc = "c12"
  /\ UNCHANGED envVars
  /\ RunStmts("c12", NextCell("c12"))
  /\ UNCHANGED <<rlimit_calls, paramVars, hamVars, evoVars>>

Cell13 ==
  /\ pc = "c13"
  /\ UNCHANGED envVars
  /\ RunStmts("c13", NextCell("c13"))
  /\ UNCHANGED <<rlimit_calls, paramVars, hamVars, evoVars>>

\* the empty last cell
Cell14 ==
  /\ pc = "c14"
  /\ UNCHANGED envVars
  /\ RunStmts("c14", NextCell("c14"))
  /\ UNCHANGED <<rlimit_calls, paramVars, hamVars, evoVars>>

Next ==
  \/ Cell1
  \/ IntroCell1 \/ IntroCell2 \/ IntroCell3 \/ IntroCell4 \/ IntroCell5
  \/ IntroCell6
  \/ Cell2 \/ Cell3 \/ Cell4 \/ Cell5
  \/ Cell6Begin \/ Cell6Iter \/ Cell6End
  \/ Cell7 \/ Cell8 \/ Cell9 \/ Cell10
  \/ Cell11Begin \/ Cell11Even \/ Cell11Odd \/ Cell11Compress \/ Cell11End
  \/ Cell12 \/ Cell13 \/ Cell14

Spec == Init /\ [][Next]_vars

\* Run-all execution of the notebook with its own field strength h = .3 and
\* evolution time: a cell that is due is executed.
InitNotebookField == Init /\ params.h = <<3, -1>>
FairSpec == InitNotebookField /\ [][Next]_vars /\ WF_vars(Next)

\* ===================================================================
\* Properties
\* ===================================================================

\* The field strength survives compression with relerr = 10^-RelErrExp and
\* does not swamp the couplings: 1e-9 <= |h| < 1e9 for a one-digit mantissa.
FieldResolvable(hh) ==
  /\ hh[1] # 0 /\ Abs(hh[1]) < 10
  /\ -(RelErrExp - 1) <= hh[2] /\ hh[2] <= RelErrExp - 2

\* The product operators of a term have pairwise distinct factors on either
\* site, which is what makes SingularValue the singular value.
SchmidtForm ==
  \A k \in 1 .. Len(h_terms) : \A p, q \in 1 .. Len(h_terms[k]) :
    p # q => /\ h_terms[k][p].a # h_terms[k][q].a
             /\ h_terms[k][p].b # h_terms[k][q].b

CellsOf02After(c) ==
  CASE c = "c3" -> {"c4", "c5", "c6", "c6_for", "c7", "c8", "c9", "c10", "c11",
                    "c11_for", "c11_odd", "c11_compress", "c12", "c13", "c14",
                    "done"}
    [] c = "c6" -> {"c7", "c8", "c9", "c10", "c11", "c11_for", "c11_odd",
                    "c11_compress", "c12", "c13", "c14", "done"}
    [] c = "c10" -> {"c11", "c11_for", "c11_odd", "c11_compress", "c12", "c13",
                     "c14", "done"}
    [] c = "c11" -> {"c12", "c13", "c14", "done"}
    [] OTHER -> {}

\* ---- C1 ----------------------------------------------------------------
TermShape(term, hh, isLast) ==
  /\ Len(term) = IF isLast THEN 4 ELSE 3
  /\ term[1] = Prod(DecOne, "X", "X")
  /\ term[2] = Prod(DecOne, "Y", "Y")
  /\ term[3] = Prod(hh, "Z", "I")
  /\ isLast => term[4] = Prod(hh, "I", "Z")

\* the entries of H that are the field hh * sigma_z on site s alone
FieldEntries(s, hh) ==
  {e \in 1 .. Len(H) :
     /\ H[e].c = hh
     /\ \/ H[e].a = "Z" /\ H[e].b = "I" /\ H[e].before = s
        \/ H[e].a = "I" /\ H[e].b = "Z" /\ H[e].before + 1 = s}

\* C1: once the terms are built there are exactly n_sites - 1 of them, each
\* is sigma_x sigma_x + sigma_y sigma_y + h sigma_z on its first site, and
\* only the last one carries the extra h sigma_z on its second site; once H
\* is summed, term k sits on the sites (k, k+1) and every site 0..n_sites-1
\* carries the field h sigma_z exactly once.  (h is the notebook's field
\* parameter; the statement about H is checked for every resolvable h.)
C1_TermsAndFields ==
  /\ pc = "c4" =>
       /\ Len(h_terms) = n_sites - 1
       /\ \A k \in 1 .. Len(h_terms) :
            TermShape(h_terms[k], h, k = Len(h_terms))
  /\ (pc \in CellsOf02After("c3") /\ FieldResolvable(h)) =>
       /\ Len(h_terms) = n_sites - 1
       /\ \A k \in 1 .. Len(h_terms) :
            TermShape(h_terms[k], h, k = Len(h_terms))
  /\ (pc \in CellsOf02After("c6") /\ FieldResolvable(h)) =>
       /\ Len(H) = 3 * (n_sites - 1) + 1
       /\ \A e \in 1 .. Len(H) :
            /\ H[e].before \in 0 .. (n_sites - 2)
            /\ H[e].before + width + H[e].after = n_sites
       /\ \A k \in 0 .. (n_sites - 2) :
            Cardinality({e \in 1 .. Len(H) : H[e].before = k})
              = IF k = n_sites - 2 THEN 4 ELSE 3
       /\ \A s \in 0 .. (n_sites - 1) : Cardinality(FieldEntries(s, h)) = 1

C1_Witness ==
  /\ pc = "done" /\ n_sites = 6 /\ h = <<3, -1>>
  /\ Len(h_terms) = 5 /\ Len(h_terms[5]) = 4 /\ Len(H) = 16
  /\ FieldEntries(5, h) = {16}

\* ---- C2 ----------------------------------------------------------------
\* the k-th library call (from 1) of the Trotter loop
ExpectedCall(k) ==
  LET m == (k - 1) % 3
      step == (k - 1) \div 3
  IN  CASE m = 0 -> [f |-> "partialdot", op |-> "h_evo_even", start |-> 0,
                     step |-> step]
        [] m = 1 -> [f |-> "partialdot", op |-> "h_evo_odd", start |-> 1,
                     step |-> step]
        [] m = 2 -> [f |-> "compress", op |-> "psi", start |-> 0, step |-> step]

\* C2: the calls of the Trotter loop are, in order, even at site 0, odd at
\* site 1, compress, repeated; never more than `steps` rounds, and exactly
\* `steps` rounds once the loop is left.
C2_TrotterOrder ==
  /\ \A k \in 1 .. Len(calls) : calls[k] = ExpectedCall(k)
  /\ Len(calls) <= 3 * steps
  /\ psi.compressions = Len(calls) \div 3
  /\ pc \in CellsOf02After("c11") =>
       /\ Len(calls) = 3 * steps
       /\ i = steps
       /\ psi.compressions = steps

C2_Witness ==
  /\ pc = "done" /\ steps = 5 /\ Len(calls) = 15
  /\ calls[14].op = "h_evo_odd" /\ calls[15].f = "compress"

\* ---- C3 ----------------------------------------------------------------
TermsIn(mpo) == {mpo[j].op.term : j \in 1 .. Len(mpo)}
\* the sites the j-th operator of a chained mpo acts on when applied at start
SitesOf(mpo, j, start) ==
  (start + mpo[j].offset) .. (start + mpo[j].offset + width - 1)

GroupOk(mpo, start) ==
  /\ Cardinality(TermsIn(mpo)) = Len(mpo)
  /\ \A j \in 1 .. Len(mpo) :
       /\ SitesOf(mpo, j, start) = {mpo[j].op.term, mpo[j].op.term + 1}
       /\ \A s \in SitesOf(mpo, j, start) : s < n_sites
  /\ \A j, k \in 1 .. Len(mpo) :
       j # k => SitesOf(mpo, j, start) \cap SitesOf(mpo, k, start) = {}

\* C3: the n_sites - 1 evolution operators are split into the even-numbered
\* and the odd-numbered terms, each in exactly one group; applied at start
\* sites 0 and 1, term k acts on the sites (k, k+1), operators of one group
\* act on disjoint sites, and no site index reaches n_sites - also for every
\* gate actually applied to psi.
C3_EvenOddPartition ==
  /\ pc \in CellsOf02After("c10") =>
       /\ Len(h_evos) = n_sites - 1
       /\ TermsIn(h_evo_even) = {k \in 0 .. (n_sites - 2) : k % 2 = 0}
       /\ TermsIn(h_evo_odd) = {k \in 0 .. (n_sites - 2) : k % 2 = 1}
       /\ Len(h_evo_even) + Len(h_evo_odd) = n_sites - 1
       /\ GroupOk(h_evo_even, EvenStart)
       /\ GroupOk(h_evo_odd, OddStart)
  /\ \A g \in 1 .. Len(psi.gates) :
       /\ psi.gates[g].lo = psi.gates[g].term
       /\ psi.gates[g].hi = psi.gates[g].term + 1
       /\ psi.gates[g].hi < n_sites

C3_Witness ==
  /\ pc = "done" /\ n_sites = 6 /\ steps = 5
  /\ TermsIn(h_evo_even) = {0, 2, 4} /\ TermsIn(h_evo_odd) = {1, 3}
  /\ Len(psi.gates) = 25

\* ---- C4 ----------------------------------------------------------------
Warning == "Warning: No memory limit set!"
\* 2 GiB = 2147483648 bytes = (2^31 - 1) + 1
TwoGiB == BigAdd(BigOf(2147483647, 0), BigOf(1, 0))
WarningCount == Cardinality({k \in 1 .. Len(stdout) : stdout[k] = Warning})

\* C4: the ImportError never leaves the memory-limit cell; before the cell
\* nothing has happened; after it exactly one of two outcomes has: without
\* the resource module the warning was printed once and setrlimit was never
\* called, with it setrlimit(RLIMIT_AS, (2 GiB, RLIM_INFINITY)) was called
\* once and no warning was printed.  The call is the cell's last statement;
\* if the system refuses it the run stops there, with the call made.
C4_MemoryLimitGuard ==
  /\ err # "ImportError"
  /\ err = "ValueError" =>
       env_resource /\ ~rlimit_raisable /\ "resource" \in defined
  /\ "resource" \notin defined => WarningCount = 0 /\ rlimit_calls = <<>>
  /\ "resource" \in defined =>
       /\ (WarningCount = 1) # (Len(rlimit_calls) = 1)
       /\ ~env_resource => WarningCount = 1 /\ rlimit_calls = <<>>
       /\ env_resource =>
            /\ WarningCount = 0
            /\ rlimit_calls = <<[resource |-> "RLIMIT_AS",
                                 soft |-> TwoGiB,
                                 hard |-> "RLIM_INFINITY"]>>

C4_Witness ==
  /\ ~env_resource /\ pc = "i3" /\ "resource" \in defined
  /\ stdout = <<Warning>> /\ rlimit_calls = <<>>

\* ---- C5 ----------------------------------------------------------------
SharedNames == {"mp", "np", "sp", "spa", "mup", "mdown", "mpx", "mpy", "mpz",
                "mid"}
CellsOf02 == {"c2", "c3", "c4", "c5", "c6", "c7", "c8", "c9", "c10", "c11",
              "c12", "c13", "c14"}
IntroCells == {"i1", "i2", "i3", "i4", "i5", "i6"}

\* the parts of a cell whose statements may run next at p
PartsAt(p) == IF p = "c11_for" THEN {"c11_for", "c11_end"} ELSE {p}

\* C5: the %run of the time-evolution notebook includes the repository's
\* basic-definitions notebook, so the include does not fail, every shared
\* name is bound when a cell of the time-evolution notebook is due, and no
\* statement ever reads an unbound name.
C5_NamesBoundBeforeUse ==
  /\ SharedNames \subseteq UNION {Defs(c) : c \in IntroCells}
  /\ err # "Exception"
  /\ err # "NameError"
  /\ \A c \in PartsAt(pc) : Uses(c) \subseteq defined
  /\ pc \in CellsOf02 \cup CellsOf02After("c3") => SharedNames \subseteq defined

\* ---- C7 ----------------------------------------------------------------
LoopPcs6 == {"c6_for"}
LoopPcs11 == {"c11_for", "c11_odd", "c11_compress"}

LoopCounts ==
  /\ pc \in LoopPcs6 => pos <= n_sites - 1
  /\ pc \in CellsOf02After("c6") => pos = n_sites - 1
  /\ pc \in LoopPcs11 => i <= steps
  /\ pc \in CellsOf02After("c11") => i = steps

\* neither loop changes what it iterates over
LoopBoundsFixed ==
  /\ pc \in LoopPcs6 => h_terms_arr' = h_terms_arr /\ n_sites' = n_sites
  /\ pc \in LoopPcs11 => steps' = steps

\* the calls into the environment that can fail do return: %run finds
\* init.ipynb and setrlimit, if called, is allowed
LibraryCallsReturn == init_found /\ (env_resource => rlimit_raisable)

\* C7 as stated (steps >= 0 included): with every library call returning,
\* a run is never stuck before its last cell has been executed.
C7_NeverStuck == LibraryCallsReturn => (pc = "done" \/ ENABLED Next)

\* C7, amended: the position loop runs n_sites - 1 times, the Trotter loop
\* `steps` times, neither changes its bound, and for every n_sites >= 2 and
\* steps >= 1 the run reaches the end of the notebook, every library call
\* returning.
C7_Terminates ==
  /\ []LoopCounts
  /\ [][LoopBoundsFixed]_vars
  /\ (params.steps >= 1 /\ LibraryCallsReturn) => <>(pc = "done")

C7_Witness ==
  /\ pc = "done" /\ params.steps = 5 /\ params.n_sites = 6
  /\ pos = 5 /\ i = 5 /\ err = "none"

\* ---- C8 ----------------------------------------------------------------
RECURSIVE ElapsedFrom(_, _)
\* total time of the gates g.. of psi that belong to term k
ElapsedFrom(k, g) ==
  IF g > Len(psi.gates) THEN RatZero
  ELSE IF psi.gates[g].term = k
       THEN RatAdd(psi.gates[g].time, ElapsedFrom(k, g + 1))
       ELSE ElapsedFrom(k, g + 1)
Elapsed(k) == ElapsedFrom(k, 1)
GateCount(k) == Cardinality({g \in 1 .. Len(psi.gates) : psi.gates[g].term = k})

\* C8: tau * steps = t; every evolution operator is built with tau; after
\* the loop every term has been applied `steps` times, for a total time
\* equal to the time t of the sparse-matrix reference.  (Exact arithmetic.)
C8_SameTotalTime ==
  /\ "tau" \in defined => RatEq(<<tau[1] * steps, tau[2]>>, RatOfDec(t))
  /\ \A k \in 1 .. Len(h_evos) : h_evos[k].time = tau
  /\ pc \in CellsOf02After("c11") =>
       /\ psi_t_spa.set /\ RatEq(psi_t_spa.time, RatOfDec(t))
       /\ \A k \in 0 .. (n_sites - 2) :
            /\ GateCount(k) = steps
            /\ RatEq(Elapsed(k), psi_t_spa.time)

C8_Witness ==
  /\ pc = "done" /\ steps = 5 /\ t = <<9, -1>> /\ n_sites = 6
  /\ tau = <<9, 50>> /\ GateCount(4) = 5 /\ RatEq(Elapsed(4), <<9, 10>>)

====
